---------------------------- MODULE Spec2Model ----------------------------
(***************************************************************************)
(* State-machine model of the ElderlyMonitoringFHE contract                *)
(* (src/unnamed/part_000): encrypted record / alert intake, the decryption *)
(* request broker, the oracle callbacks and the read accessor.             *)
(*                                                                         *)
(* Every public function is one action.  A transaction that reverts leaves *)
(* the contract storage, the event log and the oracle layer untouched.      *)
(* The observation variable ret keeps the last call: of a call that        *)
(* returned, the function, its arguments (followed by msg.sender for the   *)
(* two functions under the modifier onlySource) and the value returned; of *)
(* a call that reverted, the function, its first argument and the revert   *)
(* reason.                                                                 *)
(* The observation variable delivered keeps, for every request id, the     *)
(* cleartexts of the callback that handleAnomalyResult accepted for it.    *)
(***************************************************************************)
EXTENDS Integers, Sequences, FiniteSets, TLC

(***************************************************************************)
(* Bounds of the model.                                                    *)
(***************************************************************************)
MaxRecords == 2
MaxAlerts == 2
MaxRequests == 2
MaxEvents == 6
MaxTime == 1
MaxHealthRecords == 2
MaxInFlight == 2
MaxStarted == 4

(***************************************************************************)
(* Input domains.                                                          *)
(***************************************************************************)
\* euint32 handles are opaque to the contract; the zero handle is the
\* storage default.
ZeroHandle == "h0"
ActivityHandles == {"hA"}
SleepHandles == {"hS"}
AlertHandles == {"hP"}

\* Ids callers may pass: 0, every id that can be assigned, and one beyond.
DataIds == 0..(MaxRecords + 1)
AlertIds == 0..(MaxAlerts + 1)

\* Request ids callers may pass: every id the oracle layer can hand out
\* within the bound, and one it never hands out.
RequestIds == 0..MaxRequests

\* msg.sender of a transaction: the device gateway the placeholder modifier
\* onlySource is named after, and any other account.
Source == "source"
MsgSenders == { Source, "other" }

\* Decoded result lists the oracle may deliver.
ResultLists == { <<>>, <<"ok">>, <<"fall_detected", "ok">> }

VARIABLES
    sensorDataCount,    \* uint256 public sensorDataCount
    alertCount,         \* uint256 public alertCount
    sensorDatas,        \* mapping(uint256 => EncryptedSensorData)
    encryptedAlerts,    \* mapping(uint256 => EncryptedAlert)
    decryptedEvents,    \* mapping(uint256 => DecryptedEvent)
    requestToDataId,    \* mapping(uint256 => uint256)
    requestToAlertId,   \* mapping(uint256 => uint256)
    events,             \* the log of emitted events, in emission order
    counterRequest,     \* the oracle layer's request counter
    decryptionRequests, \* the requests the oracle layer has accepted, in order
    blockTimestamp,     \* block.timestamp of the latest block that was read
    ret,                \* the last call: function, arguments, status, value
    delivered,          \* per request id, the cleartexts handleAnomalyResult accepted
    healthRecordsKeys,  \* dashboard: the bytes stored under "health_records_keys"
    healthRecord,       \* dashboard: the bytes stored under "health_record_<id>"
    invocation,         \* dashboard: the handlers in flight, with their locals
    records,            \* dashboard: per session, the React state records
    isRefreshing,       \* dashboard: per session, the React state isRefreshing
    started,            \* dashboard: the number of handlers started so far
    submitted           \* dashboard: the ids whose submitRecord reported success

storage ==
    << sensorDataCount, alertCount, sensorDatas, encryptedAlerts,
       decryptedEvents, requestToDataId, requestToAlertId >>

oracle == << counterRequest, decryptionRequests >>

\* The state of the ElderlyMonitoringFHE contract and its observation.
contract ==
    << sensorDataCount, alertCount, sensorDatas, encryptedAlerts,
       decryptedEvents, requestToDataId, requestToAlertId, events,
       counterRequest, decryptionRequests, blockTimestamp, ret, delivered >>

\* The state of the dashboard and of the key-value contract it uses.
dashboard ==
    << healthRecordsKeys, healthRecord, invocation, records, isRefreshing,
       started, submitted >>

vars ==
    << sensorDataCount, alertCount, sensorDatas, encryptedAlerts,
       decryptedEvents, requestToDataId, requestToAlertId, events,
       counterRequest, decryptionRequests, blockTimestamp, ret, delivered,
       healthRecordsKeys, healthRecord, invocation, records, isRefreshing,
       started, submitted >>

(***************************************************************************)
(* Storage defaults: every mapping slot reads as the zero value.           *)
(***************************************************************************)
EncryptedSensorData(id, act, sleep, ts) ==
    [ id |-> id, encryptedActivityVector |-> act,
      encryptedSleepVector |-> sleep, timestamp |-> ts ]

EncryptedAlert(id, payload, ts) ==
    [ id |-> id, encryptedAlertPayload |-> payload, timestamp |-> ts ]

DecryptedEvent(summary, isHandled) ==
    [ summary |-> summary, isHandled |-> isHandled ]

ZeroSensorData == EncryptedSensorData(0, ZeroHandle, ZeroHandle, 0)
ZeroAlert == EncryptedAlert(0, ZeroHandle, 0)
ZeroEvent == DecryptedEvent("", FALSE)

(***************************************************************************)
(* bytes values passed as cleartexts.  abi.encode(string[]) and            *)
(* abi.encode(string) are kept apart, except that the empty string and the *)
(* empty list have the same encoding (offset word, zero length word).      *)
(***************************************************************************)
abi_encode_strings(list) == [ enc |-> "string[]", val |-> list ]

abi_encode_string(s) ==
    IF s = "" THEN abi_encode_strings(<<>>)
    ELSE [ enc |-> "string", val |-> <<s>> ]

MalformedBytes == [ enc |-> "malformed", val |-> <<>> ]

\* No callback accepted yet (observation only, never passed to the contract).
NotDelivered == [ enc |-> "none", val |-> <<>> ]

Cleartexts ==
    { abi_encode_strings(l) : l \in ResultLists }
        \cup { abi_encode_string("alert"), MalformedBytes }

\* abi.decode(cleartexts, (string[])): reverts unless the bytes are the
\* encoding of a string list.
CanDecodeStrings(cleartexts) == cleartexts.enc = "string[]"

abi_decode_strings(cleartexts) == cleartexts.val

\* abi.decode(cleartexts, (string)): the encoding of a string list also
\* decodes as a string (offset word, length word, bytes); the decoded text
\* is not used by the contract.
CanDecodeString(cleartexts) == cleartexts.enc \in {"string", "string[]"}

(***************************************************************************)
(* The oracle layer (FHE library).  A decryption proof is the oracle's     *)
(* signature over a request id and the cleartexts it answers with.         *)
(***************************************************************************)
KmsSign(requestId, cleartexts) ==
    [ kms |-> TRUE, requestId |-> requestId, cleartexts |-> cleartexts ]

ForgedProof(requestId, cleartexts) ==
    [ kms |-> FALSE, requestId |-> requestId, cleartexts |-> cleartexts ]

\* Other cleartexts the oracle may have signed for a request: the answer
\* with one more result appended, or with the results dropped.
OtherCleartexts(cleartexts) ==
    IF cleartexts = abi_encode_strings(<<>>)
    THEN abi_encode_strings(<<"ok">>)
    ELSE abi_encode_strings(<<>>)

\* The proofs a caller may present along with (requestId, cleartexts):
\* the oracle's signature for any request id over these cleartexts, its
\* signature for this request id over other cleartexts, or a forgery.
ProofInputs(requestId, cleartexts) ==
    { KmsSign(t, cleartexts) : t \in RequestIds }
        \cup { KmsSign(requestId, OtherCleartexts(cleartexts)),
               ForgedProof(requestId, cleartexts) }

\* FHE.checkSignatures(requestId, cleartexts, proof): TRUE when it returns,
\* FALSE when it reverts.
checkSignatures(requestId, cleartexts, proof) ==
    /\ proof.kms
    /\ proof.requestId = requestId
    /\ proof.cleartexts = cleartexts

(***************************************************************************)
(* The dashboard (src/frontend/web/src/App.tsx).  It keeps its records in  *)
(* a key-value contract: the list of record ids under                      *)
(* "health_records_keys" and each record under "health_record_<id>".       *)
(* The sessions share that contract; each has its own React state.  A      *)
(* session can have several handlers in flight: only the submit button     *)
(* (disabled while creating, line 727) and the refresh button (disabled    *)
(* while isRefreshing, line 461) are ever disabled.                        *)
(***************************************************************************)

\* Browser sessions that run the dashboard against the same store.
Sessions == { "s1", "s2" }

\* The handlers that can be in flight at a time, over all sessions.
Invocations == 1..MaxInFlight

\* Values Date.now() can return: the last millisecond of one second and the
\* first of the next.  The sessions run on clocks of their own, so that the
\* reads of two handlers are not ordered.
DateNows == { 1999, 2000 }

\* The two reads of one submitRecord, at line 159 and then at line 163 in
\* the same turn of the event loop.
ClockReads == { reads \in DateNows \X DateNows : reads[1] <= reads[2] }

\* Math.random().toString(36).substring(2, 9)
Randoms == { "4fzzzxj" }

\* newRecordData.type as chosen in the form.
RecordTypes == { "activity" }

\* Math.random() > 0.7 ? 'abnormal' : 'normal'
Statuses == { "normal", "abnormal" }

\* bytes read by getData: empty for a key never set, else the UTF-8 bytes
\* of a JSON text.
EmptyBytes == [ length |-> 0, json |-> <<>> ]

\* ethers.toUtf8Bytes(JSON.stringify(value)): the text of a list or of an
\* object is never empty.
toUtf8Bytes_JSON_stringify(value) == [ length |-> 1, json |-> <<value>> ]

\* JSON.parse(ethers.toUtf8String(bytes)) of bytes that were written so.
JSON_parse_toUtf8String(bytes) == bytes.json[1]

\* `${Date.now()}-${Math.random().toString(36).substring(2, 9)}` (line 159):
\* the same instant and the same random text give the same id.
NewRecordId(now, random) == << now, random >>

\* The object submitRecord stores (lines 161-167); now is the clock as read
\* at line 163.
RecordData(type, now) ==
    [ type |-> type, timestamp |-> now \div 1000, encryptedData |-> "FHE",
      status |-> "normal", fheProcessed |-> FALSE ]

\* { ...recordData, status: status, fheProcessed: true } (lines 260-264).
UpdatedRecord(recordData, status) ==
    [ recordData EXCEPT !.status = status, !.fheProcessed = TRUE ]

\* An element of the React state records, as loadRecords builds it.
HealthRecord(key, recordData) ==
    [ id |-> key, type |-> recordData.type, timestamp |-> recordData.timestamp,
      encryptedData |-> recordData.encryptedData, status |-> recordData.status,
      fheProcessed |-> recordData.fheProcessed ]

\* No handler in flight in this place: the session it runs in, the handler
\* that was called, the await it stands at (pc) and its locals.
Idle ==
    [ session |-> "none", handler |-> "none", pc |-> "idle", recordId |-> <<>>,
      keys |-> <<>>, list |-> <<>>, recordData |-> <<>> ]

(***************************************************************************)
(* Observation of a call.                                                  *)
(***************************************************************************)
Ok == "ok"
DataNotFound == "Data not found"
AlertNotFound == "Alert not found"
InvalidRequest == "Invalid request"
AlreadyHandled == "Already handled"
InvalidProof == "InvalidKMSSignatures"
DecodeError == "abi.decode"

Call(op, args, status, value) ==
    [ op |-> op, args |-> args, status |-> status, value |-> value ]

\* Faulty variant: the failure is reported by a notification and a return
\* instead of a revert.
Revert_logged(op, args, reason) ==
    /\ ret' = Call(op, <<args[1]>>, reason, <<>>)
    /\ events' = Append(events, <<"Failed", args[1]>>)
    /\ UNCHANGED << storage, oracle, blockTimestamp, delivered >>

\* A reverted transaction: nothing but the observation changes.
Revert(op, args, reason) ==
    /\ ret' = Call(op, <<args[1]>>, reason, <<>>)
    /\ UNCHANGED << storage, events, oracle, blockTimestamp, delivered >>

\* emit: append to the log.
Emit(e) == events' = Append(events, e)

CanEmit == Len(events) < MaxEvents

Init ==
    /\ sensorDataCount = 0
    /\ alertCount = 0
    /\ sensorDatas = [ i \in DataIds |-> ZeroSensorData ]
    /\ encryptedAlerts = [ i \in AlertIds |-> ZeroAlert ]
    /\ decryptedEvents = [ i \in DataIds |-> ZeroEvent ]
    /\ requestToDataId = [ t \in RequestIds |-> 0 ]
    /\ requestToAlertId = [ t \in RequestIds |-> 0 ]
    /\ events = <<>>
    /\ counterRequest = 0
    /\ decryptionRequests = <<>>
    /\ blockTimestamp = 1
    /\ ret = Call("constructor", <<>>, Ok, <<>>)
    /\ delivered = [ t \in RequestIds |-> NotDelivered ]
    /\ healthRecordsKeys = EmptyBytes
    /\ healthRecord = << >>
    /\ invocation = [ i \in Invocations |-> Idle ]
    /\ records = [ s \in Sessions |-> <<>> ]
    /\ isRefreshing = [ s \in Sessions |-> FALSE ]
    /\ started = 0
    /\ submitted = {}

(***************************************************************************)
(* submitEncryptedSensorData                                               *)
(***************************************************************************)
\* Faulty variant: the id is read before the counter is incremented.
NextId_beforeIncrement(count) == count

\* Faulty variant: the counter sticks at 1, so that ids are handed out again.
NextId_reused(count) == IF count = 0 THEN 1 ELSE count

\* sensorDataCount += 1; newId = sensorDataCount
NextId(count) == count + 1

\* Faulty variant: the outcome of a new record starts with the flag set.
InitialOutcome_handled == DecryptedEvent("", TRUE)

\* DecryptedEvent({ summary: "", isHandled: false })
InitialOutcome == DecryptedEvent("", FALSE)

\* block.timestamp is an input of the transaction: the time of its block,
\* which is not before the time of an earlier block.
BlockTimestamps == blockTimestamp..MaxTime

submitEncryptedSensorData(encryptedActivityVector, encryptedSleepVector, timestamp) ==
    LET newId == NextId(sensorDataCount) IN
    /\ sensorDataCount < MaxRecords
    /\ CanEmit
    /\ blockTimestamp' = timestamp
    /\ sensorDataCount' = newId
    /\ sensorDatas' =
         [ sensorDatas EXCEPT ![newId] =
             EncryptedSensorData(newId, encryptedActivityVector,
                                 encryptedSleepVector, timestamp) ]
    /\ decryptedEvents' = [ decryptedEvents EXCEPT ![newId] = InitialOutcome ]
    /\ Emit(<<"SensorDataSubmitted", newId, timestamp>>)
    /\ ret' = Call("submitEncryptedSensorData",
                   <<encryptedActivityVector, encryptedSleepVector>>, Ok, <<>>)
    /\ UNCHANGED << alertCount, encryptedAlerts, requestToDataId,
                    requestToAlertId, oracle, delivered >>

(***************************************************************************)
(* The correlation maps.                                                   *)
(***************************************************************************)
\* Faulty variant: key and value are swapped in the assignment.
StoreRequest_swapped(map, reqId, id) ==
    IF id \in DOMAIN map THEN [ map EXCEPT ![id] = reqId ] ELSE map

\* requestToDataId[reqId] = dataId; requestToAlertId[reqId] = alertId
StoreRequest(map, reqId, id) == [ map EXCEPT ![reqId] = id ]

(***************************************************************************)
(* requestAnomalyDetection                                                 *)
(***************************************************************************)
\* modifier onlySource: a placeholder whose body is "_;" alone; it has no
\* require and admits every msg.sender.
onlySource(msgSender) == TRUE

\* Faulty variant: existence tested against the counter, forgetting the 0 sentinel.
DataFound_noSentinel(dataId) == dataId <= sensorDataCount

\* Faulty variant: the require on the record is missing.
DataFound_any(dataId) == TRUE

\* Faulty variant: a request is accepted for an unhandled record only.
DataFound_unhandledOnly(dataId) ==
    sensorDatas[dataId].id # 0 /\ ~decryptedEvents[dataId].isHandled

\* require(dataRecord.id != 0, "Data not found")
DataFound(dataId) == sensorDatas[dataId].id # 0

requestAnomalyDetectionStatus(dataId) ==
    IF ~DataFound(dataId) THEN DataNotFound ELSE Ok

\* FHE.requestDecryption(ciphertexts, selector): the request id is the
\* oracle layer's counter, which is then incremented, so that no id is
\* handed out twice; the oracle layer keeps the request.
requestDecryption(reqId, ciphertexts, selector) ==
    /\ reqId = counterRequest
    /\ counterRequest' = counterRequest + 1
    /\ decryptionRequests' =
         Append(decryptionRequests,
                [ requestId |-> reqId, ciphertexts |-> ciphertexts,
                  selector |-> selector ])

requestAnomalyDetection(msgSender, dataId) ==
    LET args == <<dataId, msgSender>>
        dataRecord == sensorDatas[dataId]
        ciphertexts == << dataRecord.encryptedActivityVector,
                          dataRecord.encryptedSleepVector >>
    IN
    /\ onlySource(msgSender)
    /\ IF requestAnomalyDetectionStatus(dataId) # Ok
       THEN Revert("requestAnomalyDetection", args,
                   requestAnomalyDetectionStatus(dataId))
       ELSE \E reqId \in RequestIds :
            /\ counterRequest < MaxRequests
            /\ CanEmit
            /\ requestDecryption(reqId, ciphertexts, "handleAnomalyResult")
            /\ requestToDataId' = StoreRequest(requestToDataId, reqId, dataId)
            /\ Emit(<<"AnomalyDetectionRequested", dataId>>)
            /\ ret' = Call("requestAnomalyDetection", args, Ok, <<reqId>>)
            /\ UNCHANGED << sensorDataCount, alertCount, sensorDatas,
                            encryptedAlerts, decryptedEvents,
                            requestToAlertId, blockTimestamp, delivered >>

(***************************************************************************)
(* handleAnomalyResult                                                     *)
(***************************************************************************)
\* Faulty variant: one correlation namespace for records and alerts.
DataIdOf_sharedNamespace(requestId) ==
    IF requestToDataId[requestId] # 0
    THEN requestToDataId[requestId]
    ELSE requestToAlertId[requestId]

\* Faulty variant: a known request resolves to the latest record.
DataIdOf_latest(requestId) ==
    IF requestToDataId[requestId] # 0 THEN sensorDataCount ELSE 0

\* uint256 dataId = requestToDataId[requestId]
DataIdOf(requestId) == requestToDataId[requestId]

\* Faulty variant: the require on the resolved id is missing.
ValidRequest_any(dataId) == TRUE

\* require(dataId != 0, "Invalid request")
ValidRequest(dataId) == dataId # 0

\* Faulty variant: no idempotence guard.
NotHandled_noGuard(ev) == TRUE

\* require(!ev.isHandled, "Already handled")
NotHandled(ev) == ~ev.isHandled

\* Faulty variant: the last result is taken.
Summary_last(results) == IF Len(results) > 0 THEN results[Len(results)] ELSE ""

\* results.length > 0 ? results[0] : ""
Summary(results) == IF Len(results) > 0 THEN results[1] ELSE ""

\* Faulty variant: the summary is stored but the flag is not set.
HandledEvent_summaryOnly(ev, results) ==
    [ ev EXCEPT !.summary = Summary(results) ]

\* ev.summary = ...; ev.isHandled = true
HandledEvent(ev, results) ==
    [ ev EXCEPT !.summary = Summary(results), !.isHandled = TRUE ]

\* Faulty variant: the call of FHE.checkSignatures is left out.
handleAnomalyResultStatus_noVerify(requestId, cleartexts, proof) ==
    LET dataId == DataIdOf(requestId)
        ev == decryptedEvents[dataId]
    IN
    IF ~ValidRequest(dataId) THEN InvalidRequest
    ELSE IF ~NotHandled(ev) THEN AlreadyHandled
    ELSE IF ~CanDecodeStrings(cleartexts) THEN DecodeError
    ELSE Ok

\* Faulty variant: the proof is verified against the record id instead of
\* the request id of the callback.
handleAnomalyResultStatus_keyedByRecord(requestId, cleartexts, proof) ==
    LET dataId == DataIdOf(requestId)
        ev == decryptedEvents[dataId]
    IN
    IF ~ValidRequest(dataId) THEN InvalidRequest
    ELSE IF ~NotHandled(ev) THEN AlreadyHandled
    ELSE IF ~checkSignatures(dataId, cleartexts, proof) THEN InvalidProof
    ELSE IF ~CanDecodeStrings(cleartexts) THEN DecodeError
    ELSE Ok

\* Faulty variant: the proof is verified first, before the token lookup and
\* the handled guard.
handleAnomalyResultStatus_verifyFirst(requestId, cleartexts, proof) ==
    LET dataId == DataIdOf(requestId)
        ev == decryptedEvents[dataId]
    IN
    IF ~checkSignatures(requestId, cleartexts, proof) THEN InvalidProof
    ELSE IF ~ValidRequest(dataId) THEN InvalidRequest
    ELSE IF ~NotHandled(ev) THEN AlreadyHandled
    ELSE IF ~CanDecodeStrings(cleartexts) THEN DecodeError
    ELSE Ok

\* The checks of handleAnomalyResult in the order of the code: Ok when the
\* call gets past all of them, else the reason of the first that reverts.
handleAnomalyResultStatus(requestId, cleartexts, proof) ==
    LET dataId == DataIdOf(requestId)
        ev == decryptedEvents[dataId]
    IN
    IF ~ValidRequest(dataId) THEN InvalidRequest
    ELSE IF ~NotHandled(ev) THEN AlreadyHandled
    ELSE IF ~checkSignatures(requestId, cleartexts, proof) THEN InvalidProof
    ELSE IF ~CanDecodeStrings(cleartexts) THEN DecodeError
    ELSE Ok

handleAnomalyResult(requestId, cleartexts, proof) ==
    LET args == <<requestId, cleartexts, proof>>
        dataId == DataIdOf(requestId)
        ev == decryptedEvents[dataId]
        status == handleAnomalyResultStatus(requestId, cleartexts, proof)
    IN
    IF status # Ok
    THEN Revert("handleAnomalyResult", args, status)
    ELSE /\ CanEmit
         /\ decryptedEvents' =
              [ decryptedEvents EXCEPT
                  ![dataId] = HandledEvent(ev, abi_decode_strings(cleartexts)) ]
         /\ Emit(<<"AnomalyDetected", dataId>>)
         /\ ret' = Call("handleAnomalyResult", args, Ok, <<>>)
         /\ delivered' = [ delivered EXCEPT ![requestId] = cleartexts ]
         /\ UNCHANGED << sensorDataCount, alertCount, sensorDatas,
                         encryptedAlerts, requestToDataId, requestToAlertId,
                         oracle, blockTimestamp >>

(***************************************************************************)
(* submitEncryptedAlert                                                    *)
(***************************************************************************)
submitEncryptedAlert(encryptedPayload, timestamp) ==
    LET newId == NextId(alertCount) IN
    /\ alertCount < MaxAlerts
    /\ CanEmit
    /\ blockTimestamp' = timestamp
    /\ alertCount' = newId
    /\ encryptedAlerts' =
         [ encryptedAlerts EXCEPT
             ![newId] = EncryptedAlert(newId, encryptedPayload, timestamp) ]
    /\ Emit(<<"EncryptedAlertSubmitted", newId, timestamp>>)
    /\ ret' = Call("submitEncryptedAlert", <<encryptedPayload>>, Ok, <<>>)
    /\ UNCHANGED << sensorDataCount, sensorDatas, decryptedEvents,
                    requestToDataId, requestToAlertId, oracle, delivered >>

(***************************************************************************)
(* requestAlertDecryption                                                  *)
(***************************************************************************)
\* Faulty variant: the alert is looked up in the record store.
AlertFound_inRecords(alertId) == sensorDatas[alertId].id # 0

\* require(a.id != 0, "Alert not found")
AlertFound(alertId) == encryptedAlerts[alertId].id # 0

requestAlertDecryptionStatus(alertId) ==
    IF ~AlertFound(alertId) THEN AlertNotFound ELSE Ok

requestAlertDecryption(msgSender, alertId) ==
    LET args == <<alertId, msgSender>>
        a == encryptedAlerts[alertId]
        ciphertexts == << a.encryptedAlertPayload >>
    IN
    /\ onlySource(msgSender)
    /\ IF requestAlertDecryptionStatus(alertId) # Ok
       THEN Revert("requestAlertDecryption", args,
                   requestAlertDecryptionStatus(alertId))
       ELSE \E reqId \in RequestIds :
            /\ counterRequest < MaxRequests
            /\ CanEmit
            /\ requestDecryption(reqId, ciphertexts, "handleAlertCleartext")
            /\ requestToAlertId' = StoreRequest(requestToAlertId, reqId, alertId)
            /\ Emit(<<"AlertDecryptionRequested", alertId>>)
            /\ ret' = Call("requestAlertDecryption", args, Ok, <<reqId>>)
            /\ UNCHANGED << sensorDataCount, alertCount, sensorDatas,
                            encryptedAlerts, decryptedEvents,
                            requestToDataId, blockTimestamp, delivered >>

(***************************************************************************)
(* handleAlertCleartext                                                    *)
(***************************************************************************)
\* uint256 alertId = requestToAlertId[requestId]
AlertIdOf(requestId) == requestToAlertId[requestId]

\* Faulty variant: the alert path gets the idempotence guard of the record path.
handleAlertCleartextStatus_guarded(requestId, cleartexts, proof) ==
    LET alertId == AlertIdOf(requestId) IN
    IF ~ValidRequest(alertId) THEN InvalidRequest
    ELSE IF \E i \in 1..Len(events) : events[i] = <<"AlertDecrypted", alertId>>
    THEN AlreadyHandled
    ELSE IF ~checkSignatures(requestId, cleartexts, proof) THEN InvalidProof
    ELSE IF ~CanDecodeString(cleartexts) THEN DecodeError
    ELSE Ok

\* The checks of handleAlertCleartext in the order of the code.
handleAlertCleartextStatus(requestId, cleartexts, proof) ==
    LET alertId == AlertIdOf(requestId) IN
    IF ~ValidRequest(alertId) THEN InvalidRequest
    ELSE IF ~checkSignatures(requestId, cleartexts, proof) THEN InvalidProof
    ELSE IF ~CanDecodeString(cleartexts) THEN DecodeError
    ELSE Ok

\* Faulty variant: the alert path stores the decoded text as an outcome, as
\* the record path does.
handleAlertCleartext_persisting(requestId, cleartexts, proof) ==
    LET args == <<requestId, cleartexts, proof>>
        alertId == AlertIdOf(requestId)
        status == handleAlertCleartextStatus(requestId, cleartexts, proof)
    IN
    IF status # Ok
    THEN Revert("handleAlertCleartext", args, status)
    ELSE /\ CanEmit
         /\ decryptedEvents' =
              [ decryptedEvents EXCEPT
                  ![alertId] = DecryptedEvent(Summary(cleartexts.val), TRUE) ]
         /\ Emit(<<"AlertDecrypted", alertId>>)
         /\ ret' = Call("handleAlertCleartext", args, Ok, <<>>)
         /\ UNCHANGED << sensorDataCount, alertCount, sensorDatas,
                         encryptedAlerts, requestToDataId, requestToAlertId,
                         oracle, blockTimestamp, delivered >>

handleAlertCleartext(requestId, cleartexts, proof) ==
    LET args == <<requestId, cleartexts, proof>>
        alertId == AlertIdOf(requestId)
        status == handleAlertCleartextStatus(requestId, cleartexts, proof)
    IN
    IF status # Ok
    THEN Revert("handleAlertCleartext", args, status)
    ELSE /\ CanEmit
         /\ Emit(<<"AlertDecrypted", alertId>>)
         /\ ret' = Call("handleAlertCleartext", args, Ok, <<>>)
         /\ UNCHANGED << storage, oracle, blockTimestamp, delivered >>

(***************************************************************************)
(* getDecryptedEvent                                                       *)
(***************************************************************************)
getDecryptedEventValue(dataId) ==
    LET ev == decryptedEvents[dataId] IN <<ev.summary, ev.isHandled>>

\* Faulty variant: the accessor requires the record to exist.
getDecryptedEventStatus_requiresRecord(dataId) ==
    IF sensorDatas[dataId].id # 0 THEN Ok ELSE DataNotFound

\* The function has no require: it returns for every dataId.
getDecryptedEventStatus(dataId) == Ok

getDecryptedEvent(dataId) ==
    IF getDecryptedEventStatus(dataId) # Ok
    THEN Revert("getDecryptedEvent", <<dataId>>, getDecryptedEventStatus(dataId))
    ELSE /\ ret' = Call("getDecryptedEvent", <<dataId>>, Ok,
                        getDecryptedEventValue(dataId))
         /\ UNCHANGED << storage, events, oracle, blockTimestamp, delivered >>

Next ==
    \/ /\ \E a \in ActivityHandles, s \in SleepHandles, ts \in BlockTimestamps :
            submitEncryptedSensorData(a, s, ts)
       /\ UNCHANGED dashboard
    \/ /\ \E m \in MsgSenders, d \in DataIds : requestAnomalyDetection(m, d)
       /\ UNCHANGED dashboard
    \/ /\ \E t \in RequestIds, c \in Cleartexts :
            \E p \in ProofInputs(t, c) : handleAnomalyResult(t, c, p)
       /\ UNCHANGED dashboard
    \/ /\ \E h \in AlertHandles, ts \in BlockTimestamps : submitEncryptedAlert(h, ts)
       /\ UNCHANGED dashboard
    \/ /\ \E m \in MsgSenders, a \in AlertIds : requestAlertDecryption(m, a)
       /\ UNCHANGED dashboard
    \/ /\ \E t \in RequestIds, c \in Cleartexts :
            \E p \in ProofInputs(t, c) : handleAlertCleartext(t, c, p)
       /\ UNCHANGED dashboard
    \/ /\ \E d \in DataIds : getDecryptedEvent(d)
       /\ UNCHANGED dashboard

Spec == Init /\ [][Next]_vars

(***************************************************************************)
(* The handlers of the dashboard.  A handler runs from one await to the    *)
(* next in one step; an await that reads or writes nothing of the store    *)
(* (getContractWithSigner, getContractReadOnly, isAvailable, the clock     *)
(* reads that only the next write makes visible) is joined with the step   *)
(* after it.                                                               *)
(***************************************************************************)

\* contract.getData(`health_record_${key}`): empty bytes for a key never set.
getData(key) == IF key \in DOMAIN healthRecord THEN healthRecord[key] ELSE EmptyBytes

\* The store after contract.setData(`health_record_${key}`, bytes).
setData(key, bytes) ==
    [ k \in DOMAIN healthRecord \cup { key } |->
        IF k = key THEN bytes ELSE healthRecord[k] ]

\* keys as read from "health_records_keys" (lines 87-96 and 175-184).
ParseKeys(keysBytes) ==
    IF keysBytes.length > 0 THEN JSON_parse_toUtf8String(keysBytes) ELSE << >>

\* The keys the store lists.
ListedKeys == { ParseKeys(healthRecordsKeys)[i] : i \in DOMAIN ParseKeys(healthRecordsKeys) }

\* list.sort((a, b) => b.timestamp - a.timestamp): a stable sort, latest
\* first.
InsertByTimestamp(sorted, x) ==
    LET before == { i \in DOMAIN sorted : sorted[i].timestamp >= x.timestamp }
        n == Cardinality(before)
    IN  SubSeq(sorted, 1, n) \o << x >> \o SubSeq(sorted, n + 1, Len(sorted))

RECURSIVE SortByTimestamp(_)
SortByTimestamp(list) ==
    IF list = << >> THEN << >>
    ELSE InsertByTimestamp(SortByTimestamp(SubSeq(list, 1, Len(list) - 1)),
                           list[Len(list)])

\* Place i holds no handler.
Free(i) == invocation[i].pc = "idle"

\* Handler h starts in place i for session s, as long as fewer than
\* MaxStarted handlers have started.
Start(i, s, h, pc, recordId) ==
    /\ started < MaxStarted
    /\ started' = started + 1
    /\ invocation' = [ invocation EXCEPT ![i] =
                         [ Idle EXCEPT !.session = s, !.handler = h, !.pc = pc,
                                       !.recordId = recordId ] ]

\* The React state creating of session s: set at line 139, reset in the
\* finally block of submitRecord (line 225).
creating(s) ==
    \E i \in Invocations :
        invocation[i].session = s /\ invocation[i].handler = "submitRecord"

\* The submitRecord invocations that have not written the key list yet.
Submitting ==
    { i \in Invocations : invocation[i].pc \in { "setRecord", "getKeys", "setKeys" } }

\* A handler throws before it calls loadRecords: its catch and finally
\* blocks only set what is displayed (lines 210-226 and 282-292).
Thrown(i) ==
    /\ invocation' = [ invocation EXCEPT ![i] = Idle ]
    /\ UNCHANGED isRefreshing

\* loadRecords returns (finally, lines 127-130), and with it the handler
\* that called it.
Returned(i) ==
    /\ invocation' = [ invocation EXCEPT ![i] = Idle ]
    /\ isRefreshing' = [ isRefreshing EXCEPT ![invocation[i].session] = FALSE ]

\* The part of loadRecords after its last await: sort, setRecords (lines
\* 123-124) and the return.
setRecords(i, list) ==
    /\ records' = [ records EXCEPT ![invocation[i].session] = SortByTimestamp(list) ]
    /\ Returned(i)

\* loadRecords, lines 77-98: the contract is not available or the read of
\* the key list is rejected, and nothing is loaded; or the key list is read.
loadRecords_getKeys(i, isAvailable, resolved) ==
    /\ invocation[i].pc = "loadKeys"
    /\ IF ~isAvailable \/ ~resolved
       THEN /\ Returned(i)
            /\ UNCHANGED records
       ELSE LET keys == ParseKeys(healthRecordsKeys)
            IN  IF keys = << >>
                THEN setRecords(i, << >>)
                ELSE /\ invocation' =
                            [ invocation EXCEPT ![i].pc = "loadRecord",
                                                ![i].keys = keys,
                                                ![i].list = << >> ]
                     /\ UNCHANGED << records, isRefreshing >>
    /\ UNCHANGED << healthRecordsKeys, healthRecord, started, submitted >>

\* loadRecords, lines 100-124: one turn of the loop, which reads one record
\* and skips it when the read is rejected (lines 118-120) or gives no
\* bytes, and after the last turn the sort and setRecords.
loadRecords_getData(i, resolved) ==
    /\ invocation[i].pc = "loadRecord"
    /\ LET key == Head(invocation[i].keys)
           recordBytes == getData(key)
           list == IF resolved /\ recordBytes.length > 0
                   THEN Append(invocation[i].list,
                               HealthRecord(key, JSON_parse_toUtf8String(recordBytes)))
                   ELSE invocation[i].list
       IN  IF Tail(invocation[i].keys) = << >>
           THEN setRecords(i, list)
           ELSE /\ invocation' =
                       [ invocation EXCEPT ![i].keys = Tail(@), ![i].list = list ]
                /\ UNCHANGED << records, isRefreshing >>
    /\ UNCHANGED << healthRecordsKeys, healthRecord, started, submitted >>

\* loadRecords called by the refresh button, which is disabled while
\* isRefreshing is set (lines 459-461); line 75 sets it.
loadRecords(i, s) ==
    /\ Free(i)
    /\ ~isRefreshing[s]
    /\ Start(i, s, "loadRecords", "loadKeys", << >>)
    /\ isRefreshing' = [ isRefreshing EXCEPT ![s] = TRUE ]
    /\ UNCHANGED << healthRecordsKeys, healthRecord, records, submitted >>

\* submitRecord, lines 134-157, called by the submit button, which is
\* disabled while creating is set (line 727): without a provider an alert
\* and nothing else.
submitRecord(i, s, provider) ==
    /\ Free(i)
    /\ ~creating(s)
    /\ Len(ParseKeys(healthRecordsKeys)) + Cardinality(Submitting) < MaxHealthRecords
    /\ IF ~provider
       THEN UNCHANGED << invocation, started >>
       ELSE Start(i, s, "submitRecord", "setRecord", << >>)
    /\ UNCHANGED << healthRecordsKeys, healthRecord, records, isRefreshing, submitted >>

\* submitRecord, lines 159-173: the record id from the clock (line 159) and
\* the random text, the record with the clock read again (line 163), and
\* the transaction that stores it; a rejected transaction throws.
submitRecord_setData(i, now, random, timestampNow, type, accepted) ==
    /\ invocation[i].pc = "setRecord"
    /\ << now, timestampNow >> \in ClockReads
    /\ IF accepted
       THEN /\ healthRecord' =
                   setData(NewRecordId(now, random),
                           toUtf8Bytes_JSON_stringify(RecordData(type, timestampNow)))
            /\ invocation' = [ invocation EXCEPT ![i].pc = "getKeys",
                                                 ![i].recordId = NewRecordId(now, random) ]
            /\ UNCHANGED isRefreshing
       ELSE /\ Thrown(i)
            /\ UNCHANGED healthRecord
    /\ UNCHANGED << healthRecordsKeys, records, started, submitted >>

\* submitRecord, lines 175-186: the key list is read and the id appended to
\* the local copy; a rejected read throws.
submitRecord_getData(i, resolved) ==
    /\ invocation[i].pc = "getKeys"
    /\ IF resolved
       THEN /\ invocation' =
                   [ invocation EXCEPT
                       ![i].pc = "setKeys",
                       ![i].keys = Append(ParseKeys(healthRecordsKeys),
                                          invocation[i].recordId) ]
            /\ UNCHANGED isRefreshing
       ELSE Thrown(i)
    /\ UNCHANGED << healthRecordsKeys, healthRecord, records, started, submitted >>

\* submitRecord, lines 188-199: the local copy is written back, the
\* submission has succeeded and loadRecords is called (line 75 sets
\* isRefreshing); a rejected transaction throws.
submitRecord_setKeys(i, accepted) ==
    /\ invocation[i].pc = "setKeys"
    /\ IF accepted
       THEN /\ healthRecordsKeys' = toUtf8Bytes_JSON_stringify(invocation[i].keys)
            /\ submitted' = submitted \cup { invocation[i].recordId }
            /\ invocation' = [ invocation EXCEPT ![i].pc = "loadKeys" ]
            /\ isRefreshing' = [ isRefreshing EXCEPT ![invocation[i].session] = TRUE ]
       ELSE /\ Thrown(i)
            /\ UNCHANGED << healthRecordsKeys, submitted >>
    /\ UNCHANGED << healthRecord, records, started >>

\* The record details show the analyse button (lines 520-527).
AnalysisOffered(s, recordId) ==
    \E n \in DOMAIN records[s] :
        /\ records[s][n].id = recordId
        /\ ~records[s][n].fheProcessed

\* analyzeWithFHE, lines 230-243, up to the simulated computation time; the
\* button is never disabled.
analyzeWithFHE(i, s, recordId, provider) ==
    /\ Free(i)
    /\ AnalysisOffered(s, recordId)
    /\ IF ~provider
       THEN UNCHANGED << invocation, started >>
       ELSE Start(i, s, "analyzeWithFHE", "delay", recordId)
    /\ UNCHANGED << healthRecordsKeys, healthRecord, records, isRefreshing, submitted >>

\* analyzeWithFHE, lines 245-264: the record is read and the updated record
\* built with the status drawn; a rejected read or no bytes throws.
analyzeWithFHE_getData(i, status, resolved) ==
    /\ invocation[i].pc = "delay"
    /\ LET recordBytes == getData(invocation[i].recordId)
       IN  IF ~resolved \/ recordBytes.length = 0
           THEN Thrown(i)
           ELSE /\ invocation' =
                       [ invocation EXCEPT
                           ![i].pc = "setAnalysis",
                           ![i].recordData =
                               << UpdatedRecord(JSON_parse_toUtf8String(recordBytes),
                                                status) >> ]
                /\ UNCHANGED isRefreshing
    /\ UNCHANGED << healthRecordsKeys, healthRecord, records, started, submitted >>

\* analyzeWithFHE, lines 266-277: the updated record is written and
\* loadRecords is called (line 75 sets isRefreshing); a rejected
\* transaction throws.
analyzeWithFHE_setData(i, accepted) ==
    /\ invocation[i].pc = "setAnalysis"
    /\ IF accepted
       THEN /\ healthRecord' =
                   setData(invocation[i].recordId,
                           toUtf8Bytes_JSON_stringify(invocation[i].recordData[1]))
            /\ invocation' = [ invocation EXCEPT ![i].pc = "loadKeys",
                                                 ![i].recordData = << >> ]
            /\ isRefreshing' = [ isRefreshing EXCEPT ![invocation[i].session] = TRUE ]
       ELSE /\ Thrown(i)
            /\ UNCHANGED healthRecord
    /\ UNCHANGED << healthRecordsKeys, records, started, submitted >>

DashNext ==
    \/ /\ \E i \in Invocations, s \in Sessions, provider \in BOOLEAN :
            submitRecord(i, s, provider)
       /\ UNCHANGED contract
    \/ /\ \E i \in Invocations, now \in DateNows, random \in Randoms,
             timestampNow \in DateNows, type \in RecordTypes, accepted \in BOOLEAN :
            submitRecord_setData(i, now, random, timestampNow, type, accepted)
       /\ UNCHANGED contract
    \/ /\ \E i \in Invocations, resolved \in BOOLEAN : submitRecord_getData(i, resolved)
       /\ UNCHANGED contract
    \/ /\ \E i \in Invocations, accepted \in BOOLEAN : submitRecord_setKeys(i, accepted)
       /\ UNCHANGED contract
    \/ /\ \E i \in Invocations, s \in Sessions : loadRecords(i, s)
       /\ UNCHANGED contract
    \/ /\ \E i \in Invocations, isAvailable \in BOOLEAN, resolved \in BOOLEAN :
            loadRecords_getKeys(i, isAvailable, resolved)
       /\ UNCHANGED contract
    \/ /\ \E i \in Invocations, resolved \in BOOLEAN : loadRecords_getData(i, resolved)
       /\ UNCHANGED contract
    \/ /\ \E i \in Invocations, s \in Sessions, provider \in BOOLEAN :
            \E recordId \in DOMAIN healthRecord : analyzeWithFHE(i, s, recordId, provider)
       /\ UNCHANGED contract
    \/ /\ \E i \in Invocations, status \in Statuses, resolved \in BOOLEAN :
            analyzeWithFHE_getData(i, status, resolved)
       /\ UNCHANGED contract
    \/ /\ \E i \in Invocations, accepted \in BOOLEAN : analyzeWithFHE_setData(i, accepted)
       /\ UNCHANGED contract

DashSpec == Init /\ [][DashNext]_vars

(***************************************************************************)
(* Vocabulary of the properties.                                           *)
(***************************************************************************)
IsSensorDataSubmitted(e) == e[1] = "SensorDataSubmitted"
IsAlertDecrypted(e) == e[1] = "AlertDecrypted"

\* The number of successful submitEncryptedSensorData calls so far.
NumSubmitted == Len(SelectSeq(events, IsSensorDataSubmitted))

\* Request ids returned by a successful requestAnomalyDetection /
\* requestAlertDecryption so far, from the oracle layer's list.
AnomalyTokens ==
    { decryptionRequests[i].requestId : i \in
        { j \in 1..Len(decryptionRequests) :
            decryptionRequests[j].selector = "handleAnomalyResult" } }

AlertTokens ==
    { decryptionRequests[i].requestId : i \in
        { j \in 1..Len(decryptionRequests) :
            decryptionRequests[j].selector = "handleAlertCleartext" } }

\* A handleAnomalyResult call has succeeded for record r.
Detected(r) == \E i \in 1..Len(events) : events[i] = <<"AnomalyDetected", r>>

\* The first element of a result list, the empty string for the empty list.
FirstOrEmpty(list) == IF list = <<>> THEN "" ELSE Head(list)

\* All callback inputs of the model for request id t.
CallbackInputs(t) ==
    { <<c, p>> : c \in Cleartexts, p \in UNION { ProofInputs(t, c2) : c2 \in Cleartexts } }

\* Every callback for a token of a handled record is rejected.
C1_ReplayRejected ==
    \A t \in RequestIds :
        (requestToDataId[t] # 0 /\ Detected(requestToDataId[t])) =>
            \A in \in CallbackInputs(t) :
                handleAnomalyResultStatus(t, in[1], in[2]) = AlreadyHandled

\* The outcome of a record is the summary of the callback accepted for it.
C1_FirstResultKept ==
    \A t \in RequestIds :
        delivered[t] # NotDelivered =>
            getDecryptedEventValue(requestToDataId[t])
                = << FirstOrEmpty(delivered[t].val), TRUE >>

\* No step changes the outcome of a handled record.
C1_OutcomeFrozen ==
    \A r \in DataIds :
        Detected(r) => decryptedEvents'[r] = decryptedEvents[r]

(***************************************************************************)
(* C1.  After a successful handleAnomalyResult for record R, every         *)
(* handleAnomalyResult call with a token that maps to R (whatever its      *)
(* cleartexts and proof) reverts with "Already handled", and the outcome   *)
(* of R stays the one written by the callback that was accepted, in every  *)
(* later step.                                                             *)
(***************************************************************************)
C1_AlreadyHandledAfterFirstResult ==
    /\ [](C1_ReplayRejected /\ C1_FirstResultKept)
    /\ [][C1_OutcomeFrozen]_vars

\* A second token of a handled record was presented and rejected, while the
\* record keeps the non-empty summary of the accepted callback.
C1_Witness ==
    /\ ret.op = "handleAnomalyResult"
    /\ ret.status = AlreadyHandled
    /\ delivered[ret.args[1]] = NotDelivered
    /\ \E t \in RequestIds :
        /\ t # ret.args[1]
        /\ requestToDataId[t] = requestToDataId[ret.args[1]]
        /\ delivered[t] = abi_encode_strings(<<"fall_detected", "ok">>)
        /\ getDecryptedEventValue(requestToDataId[t]) = <<"fall_detected", TRUE>>

\* Every callback with a well-formed list and another proof is rejected.
C2_BadProofRejected ==
    \A t \in RequestIds :
        (requestToDataId[t] # 0 /\ ~Detected(requestToDataId[t])) =>
            \A in \in CallbackInputs(t) :
                (in[1].enc = "string[]" /\ in[2] # KmsSign(t, in[1])) =>
                    handleAnomalyResultStatus(t, in[1], in[2]) = InvalidProof

\* After the rejection the record of the token is unhandled.
C2_OutcomeUntouched ==
    (ret.op = "handleAnomalyResult" /\ ret.status = InvalidProof) =>
        getDecryptedEventValue(requestToDataId[ret.args[1]]) = <<"", FALSE>>

\* The rejected call changes nothing.
C2_RevertStep ==
    (ret'.op = "handleAnomalyResult" /\ ret'.status = InvalidProof) =>
        UNCHANGED << storage, events, oracle, delivered >>

(***************************************************************************)
(* C2.  A handleAnomalyResult call with a known token of an unhandled      *)
(* record, a well-formed result list and a proof that is not the oracle's  *)
(* signature for this token and these cleartexts reverts with the          *)
(* verification error, and the step of such a revert changes neither the   *)
(* outcome (which stays ("", false)) nor anything else of the contract.    *)
(***************************************************************************)
C2_ProofGatesWrite ==
    /\ [](C2_BadProofRejected /\ C2_OutcomeUntouched)
    /\ [][C2_RevertStep]_vars

C2_Witness ==
    /\ ret.op = "handleAnomalyResult"
    /\ ret.status = InvalidProof
    /\ requestToDataId[ret.args[1]] = 1
    /\ getDecryptedEventValue(1) = <<"", FALSE>>

(***************************************************************************)
(* C3.  A handleAnomalyResult call with a token that no successful         *)
(* requestAnomalyDetection has returned (never issued, or issued by        *)
(* requestAlertDecryption) reverts with "Invalid request", whatever its    *)
(* cleartexts and proof.                                                   *)
(***************************************************************************)
C3_UnknownTokenRejected ==
    \A t \in RequestIds \ AnomalyTokens :
        \A in \in CallbackInputs(t) :
            handleAnomalyResultStatus(t, in[1], in[2]) = InvalidRequest

\* An alert token was presented to handleAnomalyResult and rejected.
C3_Witness ==
    /\ ret.op = "handleAnomalyResult"
    /\ ret.status = InvalidRequest
    /\ ret.args[1] \in AlertTokens
    /\ sensorDataCount >= 1

(***************************************************************************)
(* C4.  The ids of the record-submitted notifications are 1..N in order,   *)
(* N the number of submissions and the value of the counter; the record    *)
(* stored at each of them carries that id; and right after a submission    *)
(* the outcome of the new record is ("", false).                           *)
(***************************************************************************)
C4_SequentialIds ==
    LET subs == SelectSeq(events, IsSensorDataSubmitted) IN
    /\ Len(subs) = sensorDataCount
    /\ \A i \in 1..Len(subs) : subs[i][2] = i
    /\ \A i \in 1..Len(subs) : sensorDatas[i].id = i
    /\ ret.op = "submitEncryptedSensorData" =>
         getDecryptedEventValue(Len(subs)) = <<"", FALSE>>

\* The second submission, made after the first record was handled.
C4_Witness ==
    /\ ret.op = "submitEncryptedSensorData"
    /\ NumSubmitted = 2
    /\ decryptedEvents[1].isHandled
    /\ getDecryptedEventValue(2) = <<"", FALSE>>

\* The request of 0 or of an id beyond the submissions is rejected.
C5_NotFound ==
    \A d \in DataIds :
        (d = 0 \/ d > NumSubmitted) =>
            requestAnomalyDetectionStatus(d) = DataNotFound

\* The rejected request registers and emits nothing.
C5_RevertStep ==
    (ret'.op = "requestAnomalyDetection" /\ ret'.status = DataNotFound) =>
        UNCHANGED << requestToDataId, requestToAlertId, events, oracle >>

(***************************************************************************)
(* C5.  requestAnomalyDetection(0) and requestAnomalyDetection(id) for an  *)
(* id beyond the submissions made revert with "Data not found", and the    *)
(* step of such a revert stores no correlation entry and emits nothing.    *)
(***************************************************************************)
C5_RequestOfMissingRecord ==
    /\ []C5_NotFound
    /\ [][C5_RevertStep]_vars

C5_Witness ==
    /\ ret.op = "requestAnomalyDetection"
    /\ ret.status = DataNotFound
    /\ ret.args[1] = 2
    /\ NumSubmitted = 1
    /\ AnomalyTokens # {}

\* A well-formed, signed alert callback is accepted in every state.
C6_AlwaysAccepted ==
    \A t \in AlertTokens :
        \A c \in Cleartexts :
            c.enc \in {"string", "string[]"} =>
                handleAlertCleartextStatus(t, c, KmsSign(t, c)) = Ok

\* The alert path never reports "Already handled".
C6_NoGuard ==
    ret.op = "handleAlertCleartext" => ret.status # AlreadyHandled

\* An accepted alert callback appends its one notification.
C6_OneNotification ==
    (ret'.op = "handleAlertCleartext" /\ ret'.status = Ok) =>
        events' = Append(events, <<"AlertDecrypted", requestToAlertId[ret'.args[1]]>>)

(***************************************************************************)
(* C6.  handleAlertCleartext with an alert token, cleartexts that decode   *)
(* as a string and the oracle's proof for them succeeds in every reachable *)
(* state, however often it succeeded before; every successful call appends *)
(* exactly one alert-decrypted notification; and the function never        *)
(* reverts with "Already handled".                                         *)
(***************************************************************************)
C6_AlertCallbackRepeatable ==
    /\ [](C6_AlwaysAccepted /\ C6_NoGuard)
    /\ [][C6_OneNotification]_vars

\* The one alert token was delivered three times.
C6_Witness ==
    /\ ret.op = "handleAlertCleartext"
    /\ ret.status = Ok
    /\ Cardinality(AlertTokens) = 1
    /\ Len(SelectSeq(events, IsAlertDecrypted)) = 3

\* A well-formed, signed callback for a token of an unhandled record is
\* accepted, whatever the state of the other records.
C7_EitherOrderAccepted ==
    \A t \in RequestIds :
        (requestToDataId[t] # 0 /\ ~Detected(requestToDataId[t])) =>
            \A l \in ResultLists :
                handleAnomalyResultStatus(
                    t, abi_encode_strings(l), KmsSign(t, abi_encode_strings(l))) = Ok

\* Two records whose callbacks were accepted hold each its own summary.
C7_OwnSummaries ==
    \A t1 \in RequestIds, t2 \in RequestIds :
        ( /\ delivered[t1] # NotDelivered
          /\ delivered[t2] # NotDelivered
          /\ requestToDataId[t1] # requestToDataId[t2] ) =>
            /\ getDecryptedEventValue(requestToDataId[t1])
                 = << FirstOrEmpty(delivered[t1].val), TRUE >>
            /\ getDecryptedEventValue(requestToDataId[t2])
                 = << FirstOrEmpty(delivered[t2].val), TRUE >>

(***************************************************************************)
(* C7.  With requests outstanding for two records, the signed callback of  *)
(* either is accepted whether or not the other was delivered before, and   *)
(* when both have been accepted, in whichever order and with whatever in   *)
(* between, each record holds the summary of the cleartexts delivered for  *)
(* its own token, and both are handled.                                    *)
(***************************************************************************)
C7_IndependentOutcomes == C7_EitherOrderAccepted /\ C7_OwnSummaries

\* Record 1 was requested first (token 0), record 2's callback came first.
C7_Witness ==
    /\ requestToDataId[0] = 1
    /\ requestToDataId[1] = 2
    /\ \E i \in 1..Len(events), j \in 1..Len(events) :
        /\ i < j
        /\ events[i] = <<"AnomalyDetected", 2>>
        /\ events[j] = <<"AnomalyDetected", 1>>
    /\ getDecryptedEventValue(1) = <<"fall_detected", TRUE>>
    /\ getDecryptedEventValue(2) = <<"ok", TRUE>>

(***************************************************************************)
(* C8.  After a successful handleAnomalyResult the outcome of the token's  *)
(* record is (first element of the delivered list, true), and ("", true)   *)
(* for the empty list.                                                     *)
(***************************************************************************)
C8_FirstElementIsSummary ==
    (ret.op = "handleAnomalyResult" /\ ret.status = Ok) =>
        decryptedEvents[requestToDataId[ret.args[1]]]
            = [ summary |-> FirstOrEmpty(ret.args[2].val), isHandled |-> TRUE ]

C8_Witness ==
    /\ ret.op = "handleAnomalyResult"
    /\ ret.status = Ok
    /\ ret.args[2] = abi_encode_strings(<<"fall_detected", "ok">>)
    /\ getDecryptedEventValue(1) = <<"fall_detected", TRUE>>

\* A step keeps every handled flag that is set.
C9_HandledStep ==
    \A d \in DataIds :
        decryptedEvents[d].isHandled => decryptedEvents'[d].isHandled

(***************************************************************************)
(* C9.  No step resets a handled flag: isHandled of every id, once true,   *)
(* is true after every step.                                               *)
(***************************************************************************)
C9_HandledMonotonic == [][C9_HandledStep]_vars

\* Record 1 is handled and a submission, a request and a rejected callback
\* followed.
C9_Witness ==
    /\ decryptedEvents[1].isHandled
    /\ sensorDataCount = 2
    /\ Len(events) >= 5
    /\ events[3] = <<"AnomalyDetected", 1>>
    /\ ret.op = "handleAnomalyResult"
    /\ ret.status = AlreadyHandled

\* The value read is the stored outcome, the default for unused ids.
C10_Returns ==
    ret.op = "getDecryptedEvent" =>
        /\ ret.status = Ok
        /\ ret.value = << decryptedEvents[ret.args[1]].summary,
                          decryptedEvents[ret.args[1]].isHandled >>
        /\ (ret.args[1] = 0 \/ ret.args[1] > NumSubmitted) =>
               ret.value = <<"", FALSE>>

\* The read changes nothing.
C10_ReadStep ==
    ret'.op = "getDecryptedEvent" =>
        UNCHANGED << storage, events, oracle, blockTimestamp, delivered >>

(***************************************************************************)
(* C10.  getDecryptedEvent returns for every id, with the stored outcome,  *)
(* which is ("", false) for 0 and for every id beyond the submissions      *)
(* made; the step of the call changes nothing of the contract, the log or  *)
(* the oracle layer.                                                       *)
(***************************************************************************)
C10_PureRead ==
    /\ []C10_Returns
    /\ [][C10_ReadStep]_vars

\* A read of a never-submitted id while record 1 is handled.
C10_Witness ==
    /\ ret.op = "getDecryptedEvent"
    /\ ret.args[1] = 2
    /\ NumSubmitted = 1
    /\ decryptedEvents[1].isHandled
    /\ ret.value = <<"", FALSE>>

\* The failure signal the design gives to a denied caller; the contract has
\* no such revert.
Unauthorized == "Unauthorized"

\* The policy the modifier is named after: only the source may request.
SourceOnly(msgSender) == msgSender = Source

GatedRequests == { "requestAnomalyDetection", "requestAlertDecryption" }

(***************************************************************************)
(* C11.  A requestAnomalyDetection or requestAlertDecryption call whose    *)
(* caller the access-control policy denies (here: a caller other than the  *)
(* source) fails with Unauthorized.  The contract's modifier admits every  *)
(* caller, so that the call of a denied caller is accepted.                *)
(***************************************************************************)
C11_DeniedCallerUnauthorized ==
    ( /\ ret.op \in GatedRequests
      /\ Len(ret.args) = 2
      /\ ~SourceOnly(ret.args[2]) ) =>
        ret.status = Unauthorized

\* The failure kinds of the contract.
Failures ==
    { DataNotFound, AlertNotFound, InvalidRequest, AlreadyHandled,
      InvalidProof, DecodeError }

\* A step that ends in a failed call leaves the contract and its log alone.
C12_FailedCallStep ==
    ret'.status # Ok =>
        /\ ret'.status \in Failures
        /\ UNCHANGED << sensorDataCount, alertCount, sensorDatas,
                        encryptedAlerts, decryptedEvents, requestToDataId,
                        requestToAlertId, events >>

(***************************************************************************)
(* C12.  Every call that fails (not found, invalid request, already        *)
(* handled, invalid proof) leaves the counters, the record and alert       *)
(* stores, the outcomes, both correlation maps and the notification log    *)
(* as they were before the call.                                           *)
(***************************************************************************)
C12_FailureIsAtomic == [][C12_FailedCallStep]_vars

\* An alert callback with a bad proof failed after the contract had gathered
\* records, alerts, tokens of both kinds and a handled outcome.
C12_Witness ==
    /\ ret.op = "handleAlertCleartext"
    /\ ret.status = InvalidProof
    /\ sensorDataCount = 1
    /\ alertCount = 1
    /\ AnomalyTokens # {}
    /\ AlertTokens # {}
    /\ decryptedEvents[1].isHandled

\* The token a successful request returned resolves to the requested id.
C13_Registered ==
    /\ (ret.op = "requestAnomalyDetection" /\ ret.status = Ok) =>
           requestToDataId[ret.value[1]] = ret.args[1]
    /\ (ret.op = "requestAlertDecryption" /\ ret.status = Ok) =>
           requestToAlertId[ret.value[1]] = ret.args[1]

\* No token stands for two requests: the requests the oracle layer accepted
\* have pairwise different tokens, each registered in the map of its kind
\* and in that map only.
C13_OneRequestPerToken ==
    /\ \A i \in 1..Len(decryptionRequests), j \in 1..Len(decryptionRequests) :
           i # j => decryptionRequests[i].requestId # decryptionRequests[j].requestId
    /\ \A t \in AnomalyTokens : requestToDataId[t] # 0 /\ requestToAlertId[t] = 0
    /\ \A t \in AlertTokens : requestToAlertId[t] # 0 /\ requestToDataId[t] = 0

\* No step removes or re-points a registered token.
C13_TokenStep ==
    \A t \in RequestIds :
        /\ requestToDataId[t] # 0 => requestToDataId'[t] = requestToDataId[t]
        /\ requestToAlertId[t] # 0 => requestToAlertId'[t] = requestToAlertId[t]

(***************************************************************************)
(* C13.  A token stored by requestAnomalyDetection (requestAlertDecryption)*)
(* resolves to the requested record id (alert id) right after the request  *)
(* and after every later step: no step removes the entry or changes its    *)
(* value, and no two requests are registered under one token.              *)
(***************************************************************************)
C13_TokenResolvesForLife ==
    /\ [](C13_Registered /\ C13_OneRequestPerToken)
    /\ [][C13_TokenStep]_vars

\* Token 0 was issued for record 2 and token 1 for alert 1; record 2 was
\* handled since and a read followed.
C13_Witness ==
    /\ requestToDataId[0] = 2
    /\ requestToAlertId[1] = 1
    /\ Detected(2)
    /\ ret.op = "getDecryptedEvent"

\* The oracle's answer for one token, presented with another token that is
\* known and whose record is unhandled, fails the verification.
C14_OtherTokenRejected ==
    \A t1 \in RequestIds, t2 \in RequestIds :
        ( /\ t1 # t2
          /\ requestToDataId[t2] # 0
          /\ ~Detected(requestToDataId[t2]) ) =>
            \A c \in Cleartexts :
                handleAnomalyResultStatus(t2, c, KmsSign(t1, c)) = InvalidProof

\* The step of a callback that fails the verification keeps every outcome.
C14_OutcomeStep ==
    (ret'.op = "handleAnomalyResult" /\ ret'.status = InvalidProof) =>
        /\ decryptedEvents' = decryptedEvents
        /\ getDecryptedEventValue(requestToDataId[ret'.args[1]]) = <<"", FALSE>>

(***************************************************************************)
(* C14.  The verification is keyed by the token of the callback: the       *)
(* cleartexts and the proof the oracle produced for token T1, presented to *)
(* handleAnomalyResult with another known token T2 of an unhandled record, *)
(* fail with the verification error, and the outcome of T2's record is     *)
(* left as it was.                                                         *)
(***************************************************************************)
C14_ProofKeyedByToken ==
    /\ []C14_OtherTokenRejected
    /\ [][C14_OutcomeStep]_vars

\* The answer accepted for token t1 of one record is what a callback with
\* token t2 of another, unhandled record is rejected for.
C14_Witness ==
    /\ ret.op = "handleAnomalyResult"
    /\ ret.status = InvalidProof
    /\ \E t1 \in RequestIds :
        /\ t1 # ret.args[1]
        /\ delivered[t1] = abi_encode_strings(<<"fall_detected", "ok">>)
        /\ requestToDataId[t1] # requestToDataId[ret.args[1]]
        /\ handleAnomalyResultStatus(
               ret.args[1], delivered[t1], KmsSign(t1, delivered[t1])) = InvalidProof
    /\ getDecryptedEventValue(requestToDataId[ret.args[1]]) = <<"", FALSE>>

\* Positions of the log.
Positions == 1..Len(events)

IsSubmittedOf(e, r) == e[1] = "SensorDataSubmitted" /\ e[2] = r

(***************************************************************************)
(* C15.  Per record the lifecycle is Created, DecryptionRequested,         *)
(* Handled: in the log a result-ready notification of record R occurs at   *)
(* most once and only after a decryption-requested notification of R,      *)
(* which occurs only after the record-submitted notification of R; and a   *)
(* handled record has a result-ready notification and a token registered   *)
(* by a successful requestAnomalyDetection.                                *)
(***************************************************************************)
C15_Lifecycle ==
    /\ \A i \in Positions, j \in Positions :
           ( /\ events[i][1] = "AnomalyDetected"
             /\ events[j] = events[i] ) => i = j
    /\ \A i \in Positions :
           events[i][1] = "AnomalyDetected" =>
               \E j \in 1..(i - 1) :
                   events[j] = <<"AnomalyDetectionRequested", events[i][2]>>
    /\ \A i \in Positions :
           events[i][1] = "AnomalyDetectionRequested" =>
               \E j \in 1..(i - 1) : IsSubmittedOf(events[j], events[i][2])
    /\ \A r \in DataIds :
           decryptedEvents[r].isHandled =>
               /\ Detected(r)
               /\ \E t \in AnomalyTokens : requestToDataId[t] = r

\* Record 1 went through the three stages and was requested again after it
\* was handled.
C15_Witness ==
    /\ ret.op = "requestAnomalyDetection"
    /\ ret.status = Ok
    /\ \E i \in Positions, j \in Positions, k \in Positions, l \in Positions :
        /\ i < j /\ j < k /\ k < l
        /\ IsSubmittedOf(events[i], 1)
        /\ events[j] = <<"AnomalyDetectionRequested", 1>>
        /\ events[k] = <<"AnomalyDetected", 1>>
        /\ events[l] = <<"AnomalyDetectionRequested", 1>>
    /\ decryptedEvents[1].isHandled

\* A record no callback succeeded for reads as unhandled.
C16_Unhandled ==
    \A r \in DataIds :
        ~Detected(r) => getDecryptedEventValue(r) = <<"", FALSE>>

\* Only a successful handleAnomalyResult changes an outcome.
C16_OnlyCallbackWrites ==
    ~(ret'.op = "handleAnomalyResult" /\ ret'.status = Ok) =>
        \A r \in DataIds :
            getDecryptedEventValue(r)' = getDecryptedEventValue(r)

(***************************************************************************)
(* C16.  A record for which no handleAnomalyResult call has succeeded      *)
(* reads as ("", false), whatever else has run: intakes, requests on it or *)
(* on other records, alert requests and callbacks, failed callbacks.  No   *)
(* step other than a successful handleAnomalyResult changes what           *)
(* getDecryptedEvent returns.                                              *)
(***************************************************************************)
C16_UnhandledWithoutCallback ==
    /\ []C16_Unhandled
    /\ [][C16_OnlyCallbackWrites]_vars

\* Record 1 has an outstanding request; record 2 was submitted, requested
\* and handled since, and a malformed answer for record 1 was rejected.
C16_Witness ==
    /\ requestToDataId[0] = 1
    /\ ~Detected(1)
    /\ Detected(2)
    /\ ret.op = "handleAnomalyResult"
    /\ ret.args[1] = 0
    /\ ret.status = DecodeError
    /\ getDecryptedEventValue(1) = <<"", FALSE>>

\* The frame of a successful handleAnomalyResult.
C17_CallbackStep ==
    (ret'.op = "handleAnomalyResult" /\ ret'.status = Ok) =>
        LET r == requestToDataId[ret'.args[1]] IN
        /\ \A d \in DataIds \ {r} : decryptedEvents'[d] = decryptedEvents[d]
        /\ decryptedEvents'[r].isHandled
        /\ events' = Append(events, <<"AnomalyDetected", r>>)
        /\ UNCHANGED << sensorDataCount, alertCount, sensorDatas,
                        encryptedAlerts, requestToDataId, requestToAlertId >>

(***************************************************************************)
(* C17.  A successful handleAnomalyResult with a token issued for record R *)
(* changes the outcome of R only and appends one result-ready notification *)
(* of R: the outcomes of the other records, both counters, both stores and *)
(* both correlation maps stay, whatever ran between the request and the    *)
(* callback.                                                               *)
(***************************************************************************)
C17_CallbackFrame == [][C17_CallbackStep]_vars

\* The callback of record 1 (token 0) succeeded after record 2 had been
\* submitted and requested (token 1) in between; record 2 is unhandled.
C17_Witness ==
    /\ ret.op = "handleAnomalyResult"
    /\ ret.status = Ok
    /\ ret.args[1] = 0
    /\ requestToDataId[0] = 1
    /\ requestToDataId[1] = 2
    /\ events[Len(events)] = <<"AnomalyDetected", 1>>
    /\ getDecryptedEventValue(1) = <<"ok", TRUE>>
    /\ getDecryptedEventValue(2) = <<"", FALSE>>

\* Callback inputs for request id t whose proof is not the oracle's
\* signature for t and the cleartexts.
BadProofInputs(t) ==
    { in \in CallbackInputs(t) : in[2] # KmsSign(t, in[1]) }

(***************************************************************************)
(* C18.  handleAnomalyResult applies its checks in the order token lookup, *)
(* handled guard, proof verification: with an unknown token it fails with  *)
(* "Invalid request" whatever the cleartexts and the proof, and with a     *)
(* known token of a handled record it fails with "Already handled" also    *)
(* when the proof is invalid, never with the verification error.           *)
(***************************************************************************)
C18_CheckOrder ==
    \A t \in RequestIds :
        /\ requestToDataId[t] = 0 =>
               \A in \in CallbackInputs(t) :
                   handleAnomalyResultStatus(t, in[1], in[2]) = InvalidRequest
        /\ ( /\ requestToDataId[t] # 0
             /\ decryptedEvents[requestToDataId[t]].isHandled ) =>
               \A in \in BadProofInputs(t) :
                   handleAnomalyResultStatus(t, in[1], in[2]) = AlreadyHandled

\* Record 1 is handled; a callback with its token and a forged proof gets
\* "Already handled", as the last call did, and token 2 is unknown.
C18_Witness ==
    /\ ret.op = "handleAnomalyResult"
    /\ ret.status = AlreadyHandled
    /\ requestToDataId[ret.args[1]] = 1
    /\ decryptedEvents[1].isHandled
    /\ requestToDataId[2] = 0
    /\ \A c \in Cleartexts :
        /\ handleAnomalyResultStatus(
               ret.args[1], c, ForgedProof(ret.args[1], c)) = AlreadyHandled
        /\ handleAnomalyResultStatus(2, c, KmsSign(2, c)) = InvalidRequest

\* The frame of handleAlertCleartext, accepted or rejected.
C19_AlertCallbackStep ==
    ret'.op = "handleAlertCleartext" =>
        /\ \A d \in DataIds :
               getDecryptedEventValue(d)' = getDecryptedEventValue(d)
        /\ UNCHANGED << sensorDataCount, alertCount, sensorDatas,
                        encryptedAlerts, requestToDataId, requestToAlertId >>
        /\ IF ret'.status = Ok
           THEN events' =
                  Append(events, <<"AlertDecrypted", requestToAlertId[ret'.args[1]]>>)
           ELSE events' = events

(***************************************************************************)
(* C19.  handleAlertCleartext persists nothing: whether it succeeds or     *)
(* fails, what getDecryptedEvent returns is unchanged for every id, and    *)
(* the counters, the stores and both correlation maps are unchanged; on    *)
(* success its one effect is the alert-decrypted notification, on failure  *)
(* it has none.                                                            *)
(***************************************************************************)
C19_AlertCallbackPersistsNothing == [][C19_AlertCallbackStep]_vars

\* The callback of alert 1 succeeded while record 1 has an outstanding
\* request: the outcome at the same number is still the initial one.
C19_Witness ==
    /\ ret.op = "handleAlertCleartext"
    /\ ret.status = Ok
    /\ requestToAlertId[ret.args[1]] = 1
    /\ \E t \in AnomalyTokens : requestToDataId[t] = 1
    /\ events[Len(events)] = <<"AlertDecrypted", 1>>
    /\ getDecryptedEventValue(1) = <<"", FALSE>>
    /\ delivered = [ t \in RequestIds |-> NotDelivered ]

IsAlertSubmitted(e) == e[1] = "EncryptedAlertSubmitted"

\* The number of successful submitEncryptedAlert calls so far.
NumAlertsSubmitted == Len(SelectSeq(events, IsAlertSubmitted))

\* Alert ids are 1..M in submission order, M the alert counter.
C20_AlertIds ==
    LET subs == SelectSeq(events, IsAlertSubmitted) IN
    /\ Len(subs) = alertCount
    /\ \A i \in 1..Len(subs) : subs[i][2] = i /\ encryptedAlerts[i].id = i

\* requestAlertDecryption(a) gets past its check exactly for a submitted
\* alert, whatever the record store holds at that number.
C20_AlertRequest ==
    \A a \in AlertIds :
        requestAlertDecryptionStatus(a) =
            IF 1 <= a /\ a <= NumAlertsSubmitted THEN Ok ELSE AlertNotFound

\* A token of requestAnomalyDetection is unknown to handleAlertCleartext.
C20_RecordTokenRejected ==
    \A t \in AnomalyTokens :
        \A in \in CallbackInputs(t) :
            handleAlertCleartextStatus(t, in[1], in[2]) = InvalidRequest

(***************************************************************************)
(* C20.  Alerts have their own counter and their own correlation map:      *)
(* alert ids are 1..M in submission order, whatever record submissions     *)
(* come in between; requestAlertDecryption(a) succeeds exactly when        *)
(* 1 <= a <= M and fails with "Alert not found" otherwise, also when a     *)
(* sensor record with that number exists; and handleAlertCleartext rejects *)
(* a token issued by requestAnomalyDetection with "Invalid request".       *)
(***************************************************************************)
C20_SeparateAlertNamespace ==
    C20_AlertIds /\ C20_AlertRequest /\ C20_RecordTokenRejected

\* Alert 1 was submitted between records 1 and 2; the request of alert 2
\* failed although record 2 exists, and a record token is outstanding.
C20_Witness ==
    /\ ret.op = "requestAlertDecryption"
    /\ ret.status = AlertNotFound
    /\ ret.args[1] = 2
    /\ sensorDatas[2].id = 2
    /\ alertCount = 1
    /\ AnomalyTokens # {}
    /\ \E i \in Positions, j \in Positions, k \in Positions :
        /\ i < j /\ j < k
        /\ IsSubmittedOf(events[i], 1)
        /\ IsAlertSubmitted(events[j])
        /\ IsSubmittedOf(events[k], 2)


(***************************************************************************)
(* C21.  The record store is dense and agrees with the counter: at every   *)
(* i in 1..sensorDataCount the stored record has id i and its outcome is   *)
(* the initial one or the one a successful callback wrote; at 0 and at     *)
(* every i beyond the counter the stored record has id 0 and the outcome   *)
(* is the default ("", false); and every id registered in the record       *)
(* correlation map is in 1..sensorDataCount.                               *)
(***************************************************************************)
C21_DenseStore ==
    /\ \A i \in DataIds :
           IF 1 <= i /\ i <= sensorDataCount
           THEN /\ sensorDatas[i].id = i
                /\ \/ decryptedEvents[i] = [ summary |-> "", isHandled |-> FALSE ]
                   \/ decryptedEvents[i].isHandled /\ Detected(i)
           ELSE /\ sensorDatas[i].id = 0
                /\ decryptedEvents[i] = [ summary |-> "", isHandled |-> FALSE ]
    /\ \A t \in RequestIds :
           requestToDataId[t] # 0 =>
               1 <= requestToDataId[t] /\ requestToDataId[t] <= sensorDataCount

\* Two records, the first handled with a summary, both registered in the
\* correlation map, the second by the last call; ids 0 and 3 are unused.
C21_Witness ==
    /\ sensorDataCount = 2
    /\ ret.op = "requestAnomalyDetection"
    /\ ret.status = Ok
    /\ ret.args[1] = 2
    /\ requestToDataId[0] = 1
    /\ requestToDataId[1] = 2
    /\ getDecryptedEventValue(1) = <<"fall_detected", TRUE>>
    /\ sensorDatas[3].id = 0


(***************************************************************************)
(* The two-phase protocol with an oracle that answers.                     *)
(***************************************************************************)
\* Record r has been requested and is not handled.
Pending(r) ==
    /\ \E i \in Positions : events[i] = <<"AnomalyDetectionRequested", r>>
    /\ ~decryptedEvents[r].isHandled

\* The bounded log keeps a place for the notification of every pending
\* record, so that the bound of the model never stops the oracle's answer.
Room == Len(events) + Cardinality({ r \in DataIds : Pending(r) }) <= MaxEvents

\* The oracle answers token t: a callback with a result list and the
\* oracle's signature for this token and these cleartexts.
OracleDelivers(t) ==
    /\ t \in AnomalyTokens
    /\ \E l \in ResultLists :
           handleAnomalyResult(t, abi_encode_strings(l),
                               KmsSign(t, abi_encode_strings(l)))
    /\ UNCHANGED dashboard

LiveNext ==
    \/ /\ \E a \in ActivityHandles, s \in SleepHandles, ts \in BlockTimestamps :
            submitEncryptedSensorData(a, s, ts)
       /\ Room'
       /\ UNCHANGED dashboard
    \/ /\ \E m \in MsgSenders, d \in DataIds : requestAnomalyDetection(m, d)
       /\ Room'
       /\ UNCHANGED dashboard
    \/ /\ \E t \in RequestIds, c \in Cleartexts :
            \E p \in ProofInputs(t, c) : handleAnomalyResult(t, c, p)
       /\ UNCHANGED dashboard
    \/ /\ \E h \in AlertHandles, ts \in BlockTimestamps : submitEncryptedAlert(h, ts)
       /\ Room'
       /\ UNCHANGED dashboard
    \/ /\ \E m \in MsgSenders, a \in AlertIds : requestAlertDecryption(m, a)
       /\ Room'
       /\ UNCHANGED dashboard
    \/ /\ \E t \in RequestIds, c \in Cleartexts :
            \E p \in ProofInputs(t, c) : handleAlertCleartext(t, c, p)
       /\ Room'
       /\ UNCHANGED dashboard
    \/ /\ \E d \in DataIds : getDecryptedEvent(d)
       /\ UNCHANGED dashboard

\* The oracle eventually answers every token it issued.
OracleFairness == \A t \in RequestIds : WF_vars(OracleDelivers(t))

LiveSpec == Init /\ [][LiveNext]_vars /\ OracleFairness

(***************************************************************************)
(* C22.  If the oracle eventually delivers a callback with a valid proof   *)
(* for every token it issued, every record for which a                     *)
(* requestAnomalyDetection succeeded is eventually handled, whatever other *)
(* operations are interleaved.                                             *)
(***************************************************************************)
C22_RequestedIsEventuallyHandled ==
    \A r \in 1..MaxRecords :
        (\E i \in Positions : events[i] = <<"AnomalyDetectionRequested", r>>)
            ~> decryptedEvents[r].isHandled

\* Record 1 was requested, then an alert was submitted, requested and
\* decrypted, and then the oracle's answer for record 1 was accepted.
C22_Witness ==
    /\ events = << <<"SensorDataSubmitted", 1, 1>>,
                   <<"AnomalyDetectionRequested", 1>>,
                   <<"EncryptedAlertSubmitted", 1, 1>>,
                   <<"AlertDecryptionRequested", 1>>,
                   <<"AlertDecrypted", 1>>,
                   <<"AnomalyDetected", 1>> >>
    /\ decryptedEvents[1].isHandled
    /\ ret.op = "handleAnomalyResult"
    /\ ret.status = Ok


\* The request of a stored record gets past its check whatever the outcome
\* of the record and whatever tokens it has.
C23_ExistenceOnly ==
    \A d \in DataIds :
        (1 <= d /\ d <= NumSubmitted) => requestAnomalyDetectionStatus(d) = Ok

\* Of the tokens of one record, one at most was answered with success.
C23_OneSuccessPerRecord ==
    \A t1 \in RequestIds, t2 \in RequestIds :
        ( /\ t1 # t2
          /\ requestToDataId[t1] # 0
          /\ requestToDataId[t1] = requestToDataId[t2] ) =>
            (delivered[t1] = NotDelivered \/ delivered[t2] = NotDelivered)

\* Every callback for a token of a handled record that was not the one
\* answered with success, a token registered after the record was handled
\* included, fails with "Already handled".
C23_LateTokenRejected ==
    \A t \in RequestIds :
        ( /\ requestToDataId[t] # 0
          /\ decryptedEvents[requestToDataId[t]].isHandled
          /\ delivered[t] = NotDelivered ) =>
            \A in \in CallbackInputs(t) :
                handleAnomalyResultStatus(t, in[1], in[2]) = AlreadyHandled

\* A successful request registers a token no request was registered under.
C23_FreshTokenStep ==
    ( /\ ret'.op = "requestAnomalyDetection"
      /\ ret'.status = Ok
      /\ events' # events ) =>
        /\ requestToDataId[ret'.value[1]] = 0
        /\ requestToAlertId[ret'.value[1]] = 0
        /\ requestToDataId'[ret'.value[1]] = ret'.args[1]

(***************************************************************************)
(* C23.  requestAnomalyDetection(R) checks that record R exists and not    *)
(* its outcome: it succeeds for a record with an outstanding request and   *)
(* for a handled record, each time registering a fresh token for R; of the *)
(* tokens of one record at most one callback succeeds, and every callback  *)
(* for a token registered after R was handled fails with "Already          *)
(* handled".                                                               *)
(***************************************************************************)
C23_RequestIgnoresOutcome ==
    /\ [](C23_ExistenceOnly /\ C23_OneSuccessPerRecord /\ C23_LateTokenRejected)
    /\ [][C23_FreshTokenStep]_vars

\* Record 1 was requested (token 0), handled, and requested again (token 1);
\* the callback with token 1 was rejected.
C23_Witness ==
    /\ requestToDataId[0] = 1
    /\ requestToDataId[1] = 1
    /\ delivered[0] # NotDelivered
    /\ delivered[1] = NotDelivered
    /\ \E i \in Positions, j \in Positions, k \in Positions :
        /\ i < j /\ j < k
        /\ events[i] = <<"AnomalyDetectionRequested", 1>>
        /\ events[j] = <<"AnomalyDetected", 1>>
        /\ events[k] = <<"AnomalyDetectionRequested", 1>>
    /\ ret.op = "handleAnomalyResult"
    /\ ret.args[1] = 1
    /\ ret.status = AlreadyHandled


\* The record stored under `health_record_${k}`.
StoredRecord(k) == JSON_parse_toUtf8String(healthRecord[k])

\* The stored record of k says that k was analysed.
Processed(k) == k \in DOMAIN healthRecord /\ StoredRecord(k).fheProcessed

(***************************************************************************)
(* C24.  In the dashboard every record id whose submitRecord reported      *)
(* success is listed under "health_records_keys" from then on, and no step *)
(* drops a key that is listed, also when two submitRecord invocations      *)
(* interleave at their awaits.  Each invocation reads the list and writes  *)
(* its own copy back, so that the second write drops the first one's key.  *)
(***************************************************************************)
C24_SubmittedKeysListed ==
    [][ /\ \A k \in submitted' : k \in ListedKeys'
        /\ \A k \in ListedKeys : k \in ListedKeys' ]_vars

(***************************************************************************)
(* C25.  In the dashboard a record is analysed at most once: when the      *)
(* stored record has fheProcessed = true, the write of an analyzeWithFHE   *)
(* invocation leaves its status as it is, also when two invocations on     *)
(* the record overlap in the simulated computation time.  analyzeWithFHE   *)
(* does not look at fheProcessed of the record it reads, so that the       *)
(* second invocation writes a status of its own.                           *)
(***************************************************************************)
C25_AnalysedOnce ==
    [][ \A i \in Invocations :
            ( /\ analyzeWithFHE_setData(i, TRUE)
              /\ Processed(invocation[i].recordId) ) =>
                StoredRecord(invocation[i].recordId)'.status
                    = StoredRecord(invocation[i].recordId).status ]_vars

=============================================================================
